---- MODULE Spec2Model ----
(***************************************************************************)
(* Network_Setup of hybrid_renewable_pypsa: the build pipeline             *)
(* setup_network (technology libraries, carriers, component assembly,      *)
(* constraints, topology validation, finalization) with its teardown, the  *)
(* static constraint application and the dynamic constraint windowing.     *)
(*                                                                         *)
(* Conventions.  A table read from a CSV file is a sequence of rows.  A    *)
(* component collection of the network (a DataFrame indexed by name) is a  *)
(* function from names to attribute records.  Voltages are integers in     *)
(* units of 1e-3, so that the tolerance 1e-3 of the source is 1.  Other    *)
(* cell values are strings: "0.8" is the float 0.8, "1" the integer 1,     *)
(* "NaN" an empty cell and "None" a column the table does not have.        *)
(* An exception is a record: its Python type (exc), the component the      *)
(* NetworkSetupError carries, the place that raised it (cause) and the     *)
(* identifiers its message shows (mentions).                               *)
(***************************************************************************)
EXTENDS Integers, Sequences, FiniteSets, TLC

VARIABLES
    network,         \* self.network: NoneNet or the network record
    tech_libraries,  \* self._tech_libraries: library name -> library
    pc,              \* position of setup_network
    error,           \* the exception the last call raised, NoError if none
    returned,        \* what the last call handed to its caller
    failed_row,      \* the row an adder was processing when it raised
    calls,           \* number of calls started
    arg,             \* the table the last direct call of a method was given
    before,          \* self.network when that call started
    series,          \* network.generators_t.p_max_pu: id -> value per snapshot
    series_before    \* series when the method under study was entered

vars == <<network, tech_libraries, pc, error, returned, failed_row, calls, arg, before,
          series, series_before>>

\* The record of a call; the stages of setup_network leave it alone.
direct == <<arg, before, series, series_before>>

-----------------------------------------------------------------------------
(* Bounds of the model *)

MaxRows == 2
MaxCalls == 2

-----------------------------------------------------------------------------
(* Values *)

EmptyDict == [k \in {} |-> "None"]

NoRow == [name |-> "None", type |-> "None"]

NoError == [exc |-> "none", component |-> "none", cause |-> "none", mentions |-> {}]

\* Tables of at most MaxRows rows over a set of rows.
Tables(rows) == UNION {[1..k -> rows] : k \in 0..MaxRows}

\* NetworkSetupError(message, component): str() is "component: message".
NetworkSetupError(component, cause, mentions) ==
    [exc |-> "NetworkSetupError", component |-> component, cause |-> cause,
     mentions |-> mentions]

\* Any other exception raised by Python, pandas or the engine.
Raised(exc, cause, mentions) ==
    [exc |-> exc, component |-> "none", cause |-> cause, mentions |-> mentions]

\* The result of a step that may raise.
Ok(net) == [ok |-> TRUE, net |-> net, err |-> NoError, row |-> NoRow]
Raise(net, err, row) == [ok |-> FALSE, net |-> net, err |-> err, row |-> row]

-----------------------------------------------------------------------------
(* The read layer *)

\* What a path of the data folder holds: no file, a file of zero bytes, a
\* file pandas cannot parse or decode, or the rows of a table.
NoTable == <<>>
FileKinds == {"missing", "empty", "unreadable"}
FileContents(rows) ==
    {[kind |-> k, rows |-> NoTable] : k \in FileKinds}
    \cup {[kind |-> "table", rows |-> t] : t \in Tables(rows)}

\* pd.read_csv(file_path)
pd_read_csv(file) ==
    CASE file.kind = "missing" ->
            [ok |-> FALSE, table |-> NoTable,
             err |-> Raised("FileNotFoundError", "SourceUnavailable", {"missing"})]
      [] file.kind = "empty" ->
            [ok |-> FALSE, table |-> NoTable,
             err |-> Raised("EmptyDataError", "SourceUnavailable", {"empty"})]
      [] file.kind = "unreadable" ->
            [ok |-> FALSE, table |-> NoTable,
             err |-> Raised("ParserError", "SourceUnavailable", {"unreadable"})]
      [] OTHER -> [ok |-> TRUE, table |-> file.rows, err |-> NoError]

\* What a read operation hands back: the exception that escapes it (NoError
\* when it returns), the table it returns, and the exception it logged.
Returns(table, logged) == [err |-> NoError, table |-> table, logged |-> logged]
Escapes(err) == [err |-> err, table |-> NoTable, logged |-> NoError]

\* A read_csv that handles a missing and an empty file only.
read_csv_two_handlers(relative_path, file) ==
    LET r == pd_read_csv(file)
    IN  IF r.ok THEN Returns(r.table, NoError)
        ELSE IF file.kind = "unreadable" THEN Escapes(r.err)
        ELSE Returns(NoTable, r.err)

\* DataLoader.read_csv(relative_path): every exception of pd.read_csv is
\* logged and pd.DataFrame() returned; any relative path is read.
read_csv(relative_path, file) ==
    LET r == pd_read_csv(file)
    IN  IF r.ok THEN Returns(r.table, NoError) ELSE Returns(NoTable, r.err)

allowed_files ==
    {"buses.csv", "generators.csv", "storage_units.csv", "loads.csv", "lines.csv",
     "transformers.csv", "links.csv"}

\* _sanitize_file_name: NoError when the name is allowed.
sanitize_file_name(file_name) ==
    IF file_name \notin allowed_files
    THEN Raised("ValueError", "DisallowedSource", {file_name})
    ELSE NoError

\* Network_Setup._read_csv and DataLoader.read_csv of src/src: the ValueError
\* of _sanitize_file_name is raised inside the try block, whose first handler
\* is `except ValueError`, so it is logged like the others.
legacy_read_csv(file_name, file) ==
    IF sanitize_file_name(file_name) # NoError
    THEN Returns(NoTable, sanitize_file_name(file_name))
    ELSE LET r == pd_read_csv(file)
         IN  IF r.ok THEN Returns(r.table, NoError) ELSE Returns(NoTable, r.err)

-----------------------------------------------------------------------------
(* The network aggregate *)

NoneNet == [none |-> TRUE]

CARRIER_CONFIG == {"AC", "DC", "electricity", "hydro", "solar"}

\* Network_Setup.__init__: an empty pypsa.Network with its snapshots set.
NewNetwork ==
    [none |-> FALSE, carriers |-> {}, buses |-> EmptyDict, transformers |-> EmptyDict,
     lines |-> EmptyDict, generators |-> EmptyDict, storage_units |-> EmptyDict,
     links |-> EmptyDict, loads |-> EmptyDict]

\* DataFrame with one more row.
WithRow(df, name, rec) ==
    [n \in (DOMAIN df) \cup {name} |-> IF n = name THEN rec ELSE df[n]]

\* network.add(class, name, ...) of the engine: a name already in the class's
\* collection is refused and nothing changes; bus references are not looked at.
DuplicateName(name) == Raised("AssertionError", "DuplicateName", {name})

-----------------------------------------------------------------------------
(* Buses *)

V415 == 415000
V800 == 800000
V1500 == 1500000
VoltageTolerance == 1

Volts == {V415, V415 + 1, V415 + 2, V800, V1500 + 1}

BusRows == {[name |-> "B1", v_nom |-> V415]}
              \cup {[name |-> "B2", v_nom |-> v] : v \in Volts}

\* A registration that replaces the record of a name already registered.
RECURSIVE AddBusRowsOverwrite(_, _, _)
AddBusRowsOverwrite(net, buses, i) ==
    IF i > Len(buses) THEN Ok(net)
    ELSE AddBusRowsOverwrite(
             [net EXCEPT !.buses =
                 [n \in DOMAIN @ \cup {buses[i].name} |->
                     IF n = buses[i].name THEN [v_nom |-> buses[i].v_nom] ELSE @[n]]],
             buses, i + 1)

RECURSIVE AddBusRows(_, _, _)
AddBusRows(net, buses, i) ==
    IF i > Len(buses) THEN Ok(net)
    ELSE LET bus == buses[i] IN
         IF bus.name \in DOMAIN net.buses
         THEN Raise(net, DuplicateName(bus.name), [name |-> bus.name, type |-> "None"])
         ELSE AddBusRows([net EXCEPT !.buses = WithRow(@, bus.name, [v_nom |-> bus.v_nom])],
                         buses, i + 1)

\* _add_buses on the table read_csv('buses.csv') returned.
add_buses(net, buses) == AddBusRows(net, buses, 1)

-----------------------------------------------------------------------------
(* Technology libraries *)

StorageRequired == {"roundtrip_efficiency", "cycle_life"}
TransformerRequired == {"typical_impedance_pct", "cooling_types"}
GeneratorRequired == {"ramp_limit_up_pct_per_min", "ramp_limit_down_pct_per_min"}
GeneratorUpDown == {"min_up_time_hr", "min_down_time_hr"}

\* A library is its columns and its index of types; a file that is missing,
\* empty or unreadable is read as pd.DataFrame(): no column, no row.
EmptyLib == [cols |-> {}, types |-> {}]
Lib(cols, types) == [cols |-> cols, types |-> types]

StorageLib == Lib(StorageRequired, {"battery"})
TransformerLib == Lib(TransformerRequired, {"oil"})
GeneratorLib == Lib(GeneratorRequired \cup GeneratorUpDown, {"pv"})

StorageLibs == {EmptyLib, Lib({"roundtrip_efficiency"}, {"battery"}), StorageLib,
                Lib(StorageRequired \cup {"p_nom"}, {"battery"})}
TransformerLibs == {EmptyLib, TransformerLib,
                    Lib(TransformerRequired \cup {"s_nom"}, {"oil"})}
GeneratorLibs == {EmptyLib, Lib(GeneratorRequired, {"pv"}), GeneratorLib,
                  Lib(GeneratorRequired \cup GeneratorUpDown \cup {"efficiency"}, {"pv"})}

\* The library files of one data folder: at most one of the three departs
\* from the plain library.
LibraryFiles ==
    {[storage |-> s, transformer |-> TransformerLib, generator |-> GeneratorLib] :
        s \in StorageLibs}
    \cup {[storage |-> StorageLib, transformer |-> t, generator |-> GeneratorLib] :
        t \in TransformerLibs}
    \cup {[storage |-> StorageLib, transformer |-> TransformerLib, generator |-> g] :
        g \in GeneratorLibs}

\* DataLoader.load_storage_tech_library, load_transformer_tech_library,
\* load_generator_tech_library: the library of the file, pd.DataFrame() when
\* the file cannot be read.
load_tech_library(file) ==
    LET r == pd_read_csv(file) IN IF r.ok THEN r.table ELSE EmptyLib

\* _validate_tech_library: the columns of required_columns the library lacks.
MissingColumns(df, required_columns) == required_columns \ df.cols

\* _load_tech_libraries: the dict is built entry by entry, storage first, and
\* assigned only when all three validations passed.
load_tech_libraries(files) ==
    LET bad(df, req) == MissingColumns(df, req) # {}
        err(df, req) == NetworkSetupError("Tech Libraries", "MissingLibraryColumns",
                                          MissingColumns(df, req))
    IN  IF bad(files.storage, StorageRequired)
        THEN [ok |-> FALSE, libs |-> EmptyDict, err |-> err(files.storage, StorageRequired)]
        ELSE IF bad(files.transformer, TransformerRequired)
        THEN [ok |-> FALSE, libs |-> EmptyDict,
              err |-> err(files.transformer, TransformerRequired)]
        ELSE IF bad(files.generator, GeneratorRequired)
        THEN [ok |-> FALSE, libs |-> EmptyDict,
              err |-> err(files.generator, GeneratorRequired)]
        ELSE [ok |-> TRUE, libs |-> files, err |-> NoError]

\* tech_lib.loc[type]: a type that is no index label raises KeyError(type).
UnknownType(type) == Raised("KeyError", "UnknownTechnologyType", {type})

\* f(name=..., x=row_x, **tech_specs.to_dict()): a library column named like a
\* keyword the call already passes is a TypeError (multiple values for x).
Colliding(keywords, lib) == keywords \cap lib.cols
KeywordCollision(keys) == Raised("TypeError", "KeywordCollision", keys)

-----------------------------------------------------------------------------
(* Transformers, lines *)

TransformerKeywords ==
    {"name", "bus0", "bus1", "s_nom", "x", "r", "tap_ratio", "phases", "model"}

TransformerRows ==
    {[name |-> "T1", bus0 |-> "B1", bus1 |-> "B2", type |-> "oil", s_nom |-> "row"],
     [name |-> "T2", bus0 |-> "B1", bus1 |-> "B2", type |-> "UnknownTxType",
      s_nom |-> "row"]}

RowId(row) == [name |-> row.name, type |-> row.type]

\* The loop body of _add_transformers for one row.
AddTransformer(net, lib, xfmr) ==
    IF xfmr.type \notin lib.types
    THEN Raise(net, UnknownType(xfmr.type), RowId(xfmr))
    ELSE IF Colliding(TransformerKeywords, lib) # {}
    THEN Raise(net, KeywordCollision(Colliding(TransformerKeywords, lib)), RowId(xfmr))
    ELSE IF xfmr.name \in DOMAIN net.transformers
    THEN Raise(net, DuplicateName(xfmr.name), RowId(xfmr))
    ELSE Ok([net EXCEPT !.transformers = WithRow(@, xfmr.name,
                [bus0 |-> xfmr.bus0, bus1 |-> xfmr.bus1, s_nom |-> xfmr.s_nom,
                 p_min_pu |-> "NaN", p_max_pu |-> "NaN"])])

RECURSIVE AddTransformerRows(_, _, _, _)
AddTransformerRows(net, lib, rows, i) ==
    IF i > Len(rows) THEN Ok(net)
    ELSE LET r == AddTransformer(net, lib, rows[i]) IN
         IF r.ok THEN AddTransformerRows(r.net, lib, rows, i + 1) ELSE r

\* _add_transformers; libs is self._tech_libraries.
add_transformers(net, libs, transformers) ==
    IF "transformer" \notin DOMAIN libs
    THEN Raise(net, Raised("KeyError", "NoLibrary", {"transformer"}), NoRow)
    ELSE AddTransformerRows(net, libs["transformer"], transformers, 1)

LineRows ==
    {[name |-> "Ln1", bus0 |-> "B1", bus1 |-> "B2"],
     [name |-> "Ln2", bus0 |-> "B2", bus1 |-> "NaN"]}

RECURSIVE AddLineRows(_, _, _)
AddLineRows(net, lines, i) ==
    IF i > Len(lines) THEN Ok(net)
    ELSE LET line == lines[i] IN
         IF line.name \in DOMAIN net.lines
         THEN Raise(net, DuplicateName(line.name), [name |-> line.name, type |-> "None"])
         ELSE AddLineRows([net EXCEPT !.lines = WithRow(@, line.name,
                             [bus0 |-> line.bus0, bus1 |-> line.bus1,
                              p_min_pu |-> "NaN", p_max_pu |-> "NaN"])],
                          lines, i + 1)

\* An adder that takes a table without rows for a failure.
add_lines_nonempty(net, lines) ==
    IF lines = NoTable
    THEN Raise(net, Raised("ValueError", "SourceUnavailable", {"lines.csv"}), NoRow)
    ELSE AddLineRows(net, lines, 1)

\* _add_lines
add_lines(net, lines) == AddLineRows(net, lines, 1)

-----------------------------------------------------------------------------
(* Generators, storage units *)

GeneratorRows ==
    {[name |-> n[1], bus |-> n[2], type |-> n[3], p_nom |-> "row", efficiency |-> "row",
      p_max_pu |-> "1.0"] :
        n \in {<<"G1", "B1", "pv">>, <<"Generator_1", "B2", "pv">>,
               <<"G2", "B1", "UnknownGenType">>}}

\* A loop body that substitutes defaults for a type the library lacks.
AddGeneratorDefaultSpec(net, lib, gen) ==
    IF gen.name \in DOMAIN net.generators
    THEN Raise(net, DuplicateName(gen.name), RowId(gen))
    ELSE Ok([net EXCEPT !.generators = WithRow(@, gen.name,
                [bus |-> gen.bus, p_nom |-> gen.p_nom, efficiency |-> gen.efficiency,
                 p_min_pu |-> "0.0", p_max_pu |-> gen.p_max_pu])])

\* The loop body of _add_generators for one row.  The library is read field
\* by field: a library column named like a row attribute is never passed on.
AddGenerator(net, lib, gen) ==
    IF gen.type \notin lib.types
    THEN Raise(net, UnknownType(gen.type), RowId(gen))
    ELSE IF GeneratorUpDown \ lib.cols # {}
    THEN Raise(net, Raised("KeyError", "MissingLibraryField", GeneratorUpDown \ lib.cols),
               RowId(gen))
    ELSE IF gen.name \in DOMAIN net.generators
    THEN Raise(net, DuplicateName(gen.name), RowId(gen))
    ELSE Ok([net EXCEPT !.generators = WithRow(@, gen.name,
                [bus |-> gen.bus, p_nom |-> gen.p_nom, efficiency |-> gen.efficiency,
                 p_min_pu |-> "0.0", p_max_pu |-> gen.p_max_pu])])

RECURSIVE AddGeneratorRows(_, _, _, _)
AddGeneratorRows(net, lib, rows, i) ==
    IF i > Len(rows) THEN Ok(net)
    ELSE LET r == AddGenerator(net, lib, rows[i]) IN
         IF r.ok THEN AddGeneratorRows(r.net, lib, rows, i + 1) ELSE r

\* _add_generators
add_generators(net, libs, generators) ==
    IF "generator" \notin DOMAIN libs
    THEN Raise(net, Raised("KeyError", "NoLibrary", {"generator"}), NoRow)
    ELSE AddGeneratorRows(net, libs["generator"], generators, 1)

StorageKeywords ==
    {"name", "bus", "p_nom", "max_hours", "efficiency_store", "efficiency_dispatch",
     "cyclic_state_of_charge", "standing_loss"}

StorageRows ==
    {[name |-> "S1", bus |-> "B1", type |-> "battery", p_nom |-> "row"],
     [name |-> "StorageUnit_1", bus |-> "B2", type |-> "battery", p_nom |-> "row"],
     [name |-> "S2", bus |-> "B1", type |-> "UnknownStorType", p_nom |-> "row"]}

\* The loop body of _add_storage_units for one row.
AddStorageUnit(net, lib, unit) ==
    IF unit.type \notin lib.types
    THEN Raise(net, UnknownType(unit.type), RowId(unit))
    ELSE IF Colliding(StorageKeywords, lib) # {}
    THEN Raise(net, KeywordCollision(Colliding(StorageKeywords, lib)), RowId(unit))
    ELSE IF unit.name \in DOMAIN net.storage_units
    THEN Raise(net, DuplicateName(unit.name), RowId(unit))
    ELSE Ok([net EXCEPT !.storage_units = WithRow(@, unit.name,
                [bus |-> unit.bus, p_nom |-> unit.p_nom,
                 p_min_pu |-> "-1.0", p_max_pu |-> "1.0"])])

RECURSIVE AddStorageRows(_, _, _, _)
AddStorageRows(net, lib, rows, i) ==
    IF i > Len(rows) THEN Ok(net)
    ELSE LET r == AddStorageUnit(net, lib, rows[i]) IN
         IF r.ok THEN AddStorageRows(r.net, lib, rows, i + 1) ELSE r

\* _add_storage_units
add_storage_units(net, libs, storage_units) ==
    IF "storage" \notin DOMAIN libs
    THEN Raise(net, Raised("KeyError", "NoLibrary", {"storage"}), NoRow)
    ELSE AddStorageRows(net, libs["storage"], storage_units, 1)

-----------------------------------------------------------------------------
(* Links *)

LinkRows ==
    {[name |-> "K1", bus0 |-> "B1", bus1 |-> "B2", type |-> "inverter"],
     [name |-> "K1", bus0 |-> "B2", bus1 |-> "B1", type |-> "inverter"],
     [name |-> "K2", bus0 |-> "B1", bus1 |-> "B2", type |-> "rectifier"]}

\* network.buses.at[bus, 'v_nom'] of a bus that is no row: KeyError(bus).
NoSuchBus(bus) == Raised("KeyError", "BusLookup", {bus})

\* A validation that applies the pairing rule to links of every type.
validate_link_voltages_any_type(net, link) ==
    IF link.bus0 \notin DOMAIN net.buses THEN NoSuchBus(link.bus0)
    ELSE IF link.bus1 \notin DOMAIN net.buses THEN NoSuchBus(link.bus1)
    ELSE IF /\ net.buses[link.bus0].v_nom <= V1500
            /\ net.buses[link.bus1].v_nom \notin {V415, V800}
         THEN NetworkSetupError("Link", "InverterVoltagePairing", {link.name})
         ELSE NoError

\* _validate_link_voltages: NoError when the link passes.
validate_link_voltages(net, link) ==
    IF link.bus0 \notin DOMAIN net.buses THEN NoSuchBus(link.bus0)
    ELSE IF link.bus1 \notin DOMAIN net.buses THEN NoSuchBus(link.bus1)
    ELSE LET bus0_volt == net.buses[link.bus0].v_nom
             bus1_volt == net.buses[link.bus1].v_nom
         IN  IF /\ link.type = "inverter"
                /\ bus0_volt <= V1500
                /\ bus1_volt \notin {V415, V800}
             THEN NetworkSetupError("Link", "InverterVoltagePairing", {link.name})
             ELSE NoError

\* The type of a link is not passed to the engine; the record keeps it so that
\* properties of registered links can name it.
RECURSIVE AddLinkRows(_, _, _)
AddLinkRows(net, links, i) ==
    IF i > Len(links) THEN Ok(net)
    ELSE LET link == links[i]
             v == validate_link_voltages(net, link)
         IN  IF v # NoError THEN Raise(net, v, RowId(link))
             ELSE IF link.name \in DOMAIN net.links
             THEN Raise(net, DuplicateName(link.name), RowId(link))
             ELSE AddLinkRows([net EXCEPT !.links = WithRow(@, link.name,
                                 [bus0 |-> link.bus0, bus1 |-> link.bus1,
                                  type |-> link.type,
                                  p_min_pu |-> "0", p_max_pu |-> "1"])],
                              links, i + 1)

\* _add_links
add_links(net, links) == AddLinkRows(net, links, 1)

-----------------------------------------------------------------------------
(* Loads *)

NumSnapshots == 3

\* network.snapshots: pd.date_range("2024-01-01", periods=24*7, freq="h")
Snapshots == [i \in 1..NumSnapshots |-> i]

LoadRows ==
    {[name |-> "L1", bus |-> "B1", profile_id |-> "P1"],
     [name |-> "L2", bus |-> "B1", profile_id |-> "P2"],
     [name |-> "L3", bus |-> "B1", profile_id |-> "P3"]}

\* Data folder: the profile files by profile_id, their rows the timestamps.
\* P1 is aligned with the snapshots, P2 lacks the last one, P3 is no file, P4
\* is a file of zero bytes, P5 cannot be parsed.
ProfileIds == {"P1", "P2", "P3", "P4", "P5"}
ProfileFiles ==
    [id \in ProfileIds |->
        CASE id = "P1" -> [kind |-> "table", rows |-> Snapshots]
          [] id = "P2" -> [kind |-> "table",
                           rows |-> SubSeq(Snapshots, 1, NumSnapshots - 1)]
          [] id = "P3" -> [kind |-> "missing", rows |-> NoTable]
          [] id = "P4" -> [kind |-> "empty", rows |-> NoTable]
          [] OTHER -> [kind |-> "unreadable", rows |-> NoTable]]

\* The DataFrame a profile loader returns: its index and the name of it.
NoProfile == [index_name |-> "None", index |-> NoTable]

\* DataLoader.load_profile(profile_id, profile_type): the index of a file that
\* was read is renamed 'snapshot'; a file that cannot be read gives
\* pd.DataFrame(), whose index has no name.
load_profile(profile_id, profile_type) ==
    LET r == pd_read_csv(ProfileFiles[profile_id])
    IN  IF r.ok THEN [index_name |-> "snapshot", index |-> r.table] ELSE NoProfile

\* self.data_loader.load_profile(load['profile_id']): load_profile(self,
\* profile_id, profile_type) is called without profile_type, a TypeError.
load_profile_call(profile_id) ==
    [ok |-> FALSE, profile |-> load_profile(profile_id, "None"),
     err |-> Raised("TypeError", "LoadProfileArguments", {"profile_type"})]

\* _validate_load_profile: NoError when the profile passes.
validate_load_profile(profile, load_name, snapshots) ==
    IF profile.index_name # "snapshot"
    THEN NetworkSetupError("Load", "ProfileIndexName", {profile.index_name})
    ELSE IF profile.index # snapshots
    THEN NetworkSetupError("Load", "ProfileIndexMismatch", {load_name})
    ELSE NoError

RECURSIVE AddLoadRows(_, _, _)
AddLoadRows(net, loads, i) ==
    IF i > Len(loads) THEN Ok(net)
    ELSE LET load == loads[i]
             row == [name |-> load.name, type |-> "None"]
             p == load_profile_call(load.profile_id)
         IN  IF ~p.ok THEN Raise(net, p.err, row)
             ELSE LET v == validate_load_profile(p.profile, load.name, Snapshots) IN
                  IF v # NoError THEN Raise(net, v, row)
                  ELSE IF load.name \in DOMAIN net.loads
                  THEN Raise(net, DuplicateName(load.name), row)
                  ELSE AddLoadRows([net EXCEPT !.loads = WithRow(@, load.name,
                                      [bus |-> load.bus, p_set |-> p.profile.index,
                                       p_min_pu |-> "NaN", p_max_pu |-> "NaN"])],
                                   loads, i + 1)

\* _add_loads
add_loads(net, loads) == AddLoadRows(net, loads, 1)

\* _add_components: an exception of an adder is raised again as a
\* NetworkSetupError whose component is the adder's name without "_add_" and
\* whose message ends with str() of the exception.
ComponentError(adder, e) ==
    [exc |-> "NetworkSetupError", component |-> adder, cause |-> e.cause,
     mentions |-> e.mentions \cup (IF e.component = "none" THEN {} ELSE {e.component})]

-----------------------------------------------------------------------------
(* Static constraints *)

COMPONENT_MAP ==
    [Generator |-> "generators", StorageUnit |-> "storage_units", Line |-> "lines",
     Load |-> "loads", Transformer |-> "transformers"]

ConstraintIds == {"G1", "Generator_1", "Generator_9", "S1", "StorageUnit_1", "Relay_1"}

\* constraint['component_id'].split('_', 1)[0]
IdPrefix(component_id) ==
    CASE component_id \in {"Generator_1", "Generator_9"} -> "Generator"
      [] component_id = "StorageUnit_1" -> "StorageUnit"
      [] component_id = "Relay_1" -> "Relay"
      [] OTHER -> component_id

\* The component_type column of a row that targets the id.
TypeColumn(component_id) ==
    CASE component_id \in {"G1", "Generator_1", "Generator_9"} -> "Generator"
      [] component_id \in {"S1", "StorageUnit_1"} -> "StorageUnit"
      [] OTHER -> "Relay"

\* The min_value and max_value cells of a row.
LimitCells ==
    {<<"None", "0.8">>, <<"0.8", "None">>, <<"NaN", "0.8">>, <<"0", "1">>,
     <<"0.8", "0">>, <<"None", "None">>}

StaticRows ==
    {[component_type |-> TypeColumn(id), component_id |-> id,
      min_value |-> c[1], max_value |-> c[2]] : id \in ConstraintIds, c \in LimitCells}

\* Truth value of a cell in `if value := constraint.get(...)`: None and zero
\* are false, NaN is true.
Truthy(value) == value \notin {"None", "0", "0.0"}

\* float(value)
Float(value) ==
    CASE value = "0" -> "0.0"
      [] value = "1" -> "1.0"
      [] OTHER -> value

\* The row that df.loc[new_label, column] = v appends: NaN in every column.
NaNRow(list_name) ==
    CASE list_name = "generators" ->
            [bus |-> "NaN", p_nom |-> "NaN", efficiency |-> "NaN", p_min_pu |-> "NaN",
             p_max_pu |-> "NaN"]
      [] list_name = "storage_units" ->
            [bus |-> "NaN", p_nom |-> "NaN", p_min_pu |-> "NaN", p_max_pu |-> "NaN"]
      [] list_name = "loads" ->
            [bus |-> "NaN", p_set |-> <<>>, p_min_pu |-> "NaN", p_max_pu |-> "NaN"]
      [] list_name = "lines" ->
            [bus0 |-> "NaN", bus1 |-> "NaN", p_min_pu |-> "NaN", p_max_pu |-> "NaN"]
      [] OTHER ->
            [bus0 |-> "NaN", bus1 |-> "NaN", s_nom |-> "NaN", p_min_pu |-> "NaN",
             p_max_pu |-> "NaN"]

\* component_df.loc[component_id, column] = value: a label that is no row of
\* the DataFrame is appended to it (setting with enlargement).
LocSet(df, list_name, component_id, column, value) ==
    IF component_id \in DOMAIN df
    THEN [df EXCEPT ![component_id][column] = value]
    ELSE WithRow(df, component_id, [NaNRow(list_name) EXCEPT ![column] = value])

\* for limit_type in ['min', 'max']: the write of one limit of one row.
ApplyLimit(net, constraint, limit_type) ==
    LET value == IF limit_type = "min" THEN constraint.min_value ELSE constraint.max_value
        column == IF limit_type = "min" THEN "p_min_pu" ELSE "p_max_pu"
        list_name == COMPONENT_MAP[IdPrefix(constraint.component_id)]
    IN  IF Truthy(value)
        THEN [net EXCEPT ![list_name] =
                 LocSet(@, list_name, constraint.component_id, column, Float(value))]
        ELSE net

\* The loop body of _apply_static_constraints for one row.
ApplyStaticConstraint(net, constraint) ==
    IF IdPrefix(constraint.component_id) \notin DOMAIN COMPONENT_MAP
    THEN Raise(net, NetworkSetupError("Constraint", "InvalidConstraintTarget",
                                      {constraint.component_id}),
               [name |-> constraint.component_id, type |-> constraint.component_type])
    ELSE Ok(ApplyLimit(ApplyLimit(net, constraint, "min"), constraint, "max"))

RECURSIVE ApplyStaticRows(_, _, _)
ApplyStaticRows(net, constraints, i) ==
    IF i > Len(constraints) THEN Ok(net)
    ELSE LET r == ApplyStaticConstraint(net, constraints[i]) IN
         IF r.ok THEN ApplyStaticRows(r.net, constraints, i + 1) ELSE r

\* _apply_static_constraints
apply_static_constraints(net, constraints) == ApplyStaticRows(net, constraints, 1)

-----------------------------------------------------------------------------
(* Topology validation *)

Abs(x) == IF x < 0 THEN -x ELSE x

\* The bus references of a component, in the order they are checked.
BusesOf(comp_type, comp) ==
    IF comp_type # "Link" THEN <<comp.bus>> ELSE <<comp.bus0, comp.bus1>>

\* The first reference of a component to a bus that is no row of buses.
InvalidBus(net, comp_type, comp) ==
    LET buses == BusesOf(comp_type, comp)
        bad == {i \in DOMAIN buses : buses[i] \notin DOMAIN net.buses}
    IN  IF bad = {} THEN "None"
        ELSE buses[CHOOSE i \in bad : \A j \in bad : i <= j]

\* The errors _check_component_connections can raise for one class: one per
\* component with an invalid bus (it raises for the first such row).
ClassConnectionErrors(net, comp_type, df) ==
    {NetworkSetupError(comp_type, "MissingBusReference",
                       {name, InvalidBus(net, comp_type, df[name])}) :
        name \in {n \in DOMAIN df : InvalidBus(net, comp_type, df[n]) # "None"}}

\* _check_component_connections: Generator, Load, StorageUnit, Link, in this
\* order; the empty set when every checked component passes.
check_component_connections(net) ==
    LET g == ClassConnectionErrors(net, "Generator", net.generators)
        l == ClassConnectionErrors(net, "Load", net.loads)
        s == ClassConnectionErrors(net, "StorageUnit", net.storage_units)
        k == ClassConnectionErrors(net, "Link", net.links)
    IN  IF g # {} THEN g ELSE IF l # {} THEN l ELSE IF s # {} THEN s ELSE k

\* A voltage check that compares bus0_v - bus1_v without abs().
CheckLineVoltageSigned(net, name) ==
    LET line == net.lines[name] IN
    IF line.bus0 = "NaN" \/ line.bus1 = "NaN"
    THEN NetworkSetupError("Line", "NaNBus", {name, line.bus0, line.bus1})
    ELSE IF line.bus0 \notin DOMAIN net.buses THEN NoSuchBus(line.bus0)
    ELSE IF line.bus1 \notin DOMAIN net.buses THEN NoSuchBus(line.bus1)
    ELSE IF net.buses[line.bus0].v_nom - net.buses[line.bus1].v_nom > VoltageTolerance
         THEN NetworkSetupError("Line", "VoltageMismatch", {name})
         ELSE NoError

\* The loop body of _check_voltage_levels for one line: NoError when it passes.
CheckLineVoltage(net, name) ==
    LET line == net.lines[name] IN
    IF line.bus0 = "NaN" \/ line.bus1 = "NaN"
    THEN NetworkSetupError("Line", "NaNBus", {name, line.bus0, line.bus1})
    ELSE IF line.bus0 \notin DOMAIN net.buses THEN NoSuchBus(line.bus0)
    ELSE IF line.bus1 \notin DOMAIN net.buses THEN NoSuchBus(line.bus1)
    ELSE LET bus0_v == net.buses[line.bus0].v_nom
             bus1_v == net.buses[line.bus1].v_nom
         IN  IF Abs(bus0_v - bus1_v) > VoltageTolerance
             THEN NetworkSetupError("Line", "VoltageMismatch", {name})
             ELSE NoError

\* _check_voltage_levels: it raises for the first line that fails; the empty
\* set when every line passes.
check_voltage_levels(net) ==
    {CheckLineVoltage(net, name) : name \in DOMAIN net.lines} \ {NoError}

\* network.consistency_check() and network.lopf(...) belong to the engine:
\* either may pass or raise.
EngineError(cause) == Raised("EngineError", cause, {})

\* A validation that checks the voltages before the connections.
validate_voltage_first(net, engine_passes) ==
    IF check_voltage_levels(net) # {} THEN check_voltage_levels(net)
    ELSE IF check_component_connections(net) # {} THEN check_component_connections(net)
    ELSE IF ~engine_passes THEN {EngineError("ConsistencyCheck")}
    ELSE {NoError}

\* _validate_network_topology: the errors it can raise, {NoError} when the
\* three checks pass.
validate_network_topology(net, engine_passes) ==
    IF check_component_connections(net) # {} THEN check_component_connections(net)
    ELSE IF check_voltage_levels(net) # {} THEN check_voltage_levels(net)
    ELSE IF ~engine_passes THEN {EngineError("ConsistencyCheck")}
    ELSE {NoError}

-----------------------------------------------------------------------------
(* setup_network *)

\* A teardown that forgets to drop the network.
cleanup_network_kept(net) == net

\* The stages of setup_network in the order of its try block, the adders of
\* _add_components in the order of component_order.
StageOrder ==
    <<"load_tech", "add_carriers", "add_buses", "add_transformers", "add_lines",
      "add_generators", "add_storage_units", "add_links", "add_loads",
      "add_constraints", "validate", "finalize", "done">>

\* A handler that logs the exception of a stage and goes on with the next one.
FailLogged(err, row) ==
    /\ error' = err
    /\ failed_row' = row
    /\ pc' = StageOrder[1 + CHOOSE i \in 1..(Len(StageOrder) - 1) : StageOrder[i] = pc]
    /\ returned' = IF pc = "finalize" THEN "network" ELSE returned
    /\ UNCHANGED <<network, tech_libraries, calls, direct>>

\* _cleanup_resources
cleanup_network(net) == NoneNet
cleanup_libraries(libs) == EmptyDict

\* except Exception: self._cleanup_resources(); raise
Fail(err, row) ==
    /\ network' = cleanup_network(network)
    /\ tech_libraries' = cleanup_libraries(tech_libraries)
    /\ pc' = "failed"
    /\ error' = err
    /\ returned' = "raised"
    /\ failed_row' = row
    /\ UNCHANGED <<calls, direct>>

\* A stage that passed: the next one follows.
Pass(net, next) ==
    /\ network' = net
    /\ pc' = next
    /\ UNCHANGED <<tech_libraries, error, returned, failed_row, calls, direct>>

\* One adder of _add_components.
Adder(r, adder, next) ==
    IF r.ok THEN Pass(r.net, next) ELSE Fail(ComponentError(adder, r.err), r.row)

Init ==
    /\ network = NewNetwork
    /\ tech_libraries = EmptyDict
    /\ pc = "idle"
    /\ error = NoError
    /\ returned = "nothing"
    /\ failed_row = NoRow
    /\ calls = 0
    /\ arg = <<>>
    /\ before = NewNetwork
    /\ series = EmptyDict
    /\ series_before = EmptyDict

\* A caller invokes setup_network.
Call ==
    /\ pc \in {"idle", "done", "failed"}
    /\ calls < MaxCalls
    /\ calls' = calls + 1
    /\ pc' = "load_tech"
    /\ error' = NoError
    /\ returned' = "nothing"
    /\ failed_row' = NoRow
    /\ before' = network
    /\ UNCHANGED <<network, tech_libraries, arg, series, series_before>>

LoadTechLibraries ==
    /\ pc = "load_tech"
    /\ \E files \in LibraryFiles :
         LET r == load_tech_libraries(files) IN
         IF r.ok
         THEN /\ tech_libraries' = r.libs
              /\ pc' = "add_carriers"
              /\ UNCHANGED <<network, error, returned, failed_row, calls, direct>>
         ELSE Fail(r.err, NoRow)

\* An _add_carriers that makes a new network when the object holds none.
add_carriers_fresh(net) ==
    IF net = NoneNet
    THEN Ok([NewNetwork EXCEPT !.carriers = CARRIER_CONFIG])
    ELSE IF net.carriers \cap CARRIER_CONFIG # {}
    THEN Raise(net, DuplicateName("AC"), NoRow)
    ELSE Ok([net EXCEPT !.carriers = @ \cup CARRIER_CONFIG])

\* _add_carriers: network.add("Carrier", ...) for each carrier of CARRIER_CONFIG.
add_carriers(net) ==
    IF net = NoneNet
    THEN Raise(net, Raised("AttributeError", "NoneNetwork", {"add"}), NoRow)
    ELSE IF net.carriers \cap CARRIER_CONFIG # {}
    THEN Raise(net, DuplicateName("AC"), NoRow)
    ELSE Ok([net EXCEPT !.carriers = @ \cup CARRIER_CONFIG])

AddCarriers ==
    /\ pc = "add_carriers"
    /\ LET r == add_carriers(network) IN
       IF r.ok THEN Pass(r.net, "add_buses") ELSE Fail(r.err, r.row)

AddBuses ==
    /\ pc = "add_buses"
    /\ \E buses \in Tables(BusRows) :
         Adder(add_buses(network, buses), "buses", "add_transformers")

\* A component_order that lists _add_lines in the place of _add_transformers.
AddTransformersSwapped ==
    /\ pc = "add_transformers"
    /\ \E lines \in Tables(LineRows) :
         Adder(add_lines(network, lines), "lines", "add_lines")

AddTransformers ==
    /\ pc = "add_transformers"
    /\ \E transformers \in Tables(TransformerRows) :
         Adder(add_transformers(network, tech_libraries, transformers),
               "transformers", "add_lines")

AddLines ==
    /\ pc = "add_lines"
    /\ \E lines \in Tables(LineRows) :
         Adder(add_lines(network, lines), "lines", "add_generators")

AddGenerators ==
    /\ pc = "add_generators"
    /\ \E generators \in Tables(GeneratorRows) :
         Adder(add_generators(network, tech_libraries, generators),
               "generators", "add_storage_units")

AddStorageUnits ==
    /\ pc = "add_storage_units"
    /\ \E storage_units \in Tables(StorageRows) :
         Adder(add_storage_units(network, tech_libraries, storage_units),
               "storage_units", "add_links")

AddLinks ==
    /\ pc = "add_links"
    /\ \E links \in Tables(LinkRows) :
         Adder(add_links(network, links), "links", "add_loads")

AddLoads ==
    /\ pc = "add_loads"
    /\ \E loads \in Tables(LoadRows) :
         Adder(add_loads(network, loads), "loads", "add_constraints")

\* component_constraints.csv of the data folder: at most one row, a max_value.
ConstraintFiles ==
    {<<>>} \cup {<<row>> : row \in {r \in StaticRows :
                                      r.min_value = "None" /\ r.max_value = "0.8"}}

\* _add_constraints: the three constraint sources are loaded, the static
\* constraints applied; the dynamic ones are not (the call is commented out).
AddConstraints ==
    /\ pc = "add_constraints"
    /\ \E static \in ConstraintFiles :
         LET r == apply_static_constraints(network, static) IN
         IF r.ok THEN Pass(r.net, "validate") ELSE Fail(r.err, r.row)

ValidateNetworkTopology ==
    /\ pc = "validate"
    /\ \E engine_passes \in BOOLEAN :
         \E e \in validate_network_topology(network, engine_passes) :
            IF e = NoError THEN Pass(network, "finalize") ELSE Fail(e, NoRow)

\* A setup_network that releases its resources on the way out, error or not.
FinalizeNetworkTeardown ==
    /\ pc = "finalize"
    /\ \E lopf_passes \in BOOLEAN :
         IF lopf_passes
         THEN /\ pc' = "done"
              /\ returned' = "network"
              /\ network' = cleanup_network(network)
              /\ tech_libraries' = cleanup_libraries(tech_libraries)
              /\ UNCHANGED <<error, failed_row, calls, direct>>
         ELSE Fail(EngineError("Finalize"), NoRow)

\* _finalize_network, then `return self.network`.
FinalizeNetwork ==
    /\ pc = "finalize"
    /\ \E lopf_passes \in BOOLEAN :
         IF lopf_passes
         THEN /\ pc' = "done"
              /\ returned' = "network"
              /\ UNCHANGED <<network, tech_libraries, error, failed_row, calls, direct>>
         ELSE Fail(EngineError("Finalize"), NoRow)

Next ==
    \/ Call
    \/ LoadTechLibraries
    \/ AddCarriers
    \/ AddBuses
    \/ AddTransformers
    \/ AddLines
    \/ AddGenerators
    \/ AddStorageUnits
    \/ AddLinks
    \/ AddLoads
    \/ AddConstraints
    \/ ValidateNetworkTopology
    \/ FinalizeNetwork

Spec == Init /\ [][Next]_vars

-----------------------------------------------------------------------------
(* _apply_static_constraints called on an assembled network *)

PlainLibraries ==
    [storage |-> StorageLib, transformer |-> TransformerLib, generator |-> GeneratorLib]

RowsNamed(rows, names) ==
    LET picked == {r \in rows : r.name \in names}
    IN  CHOOSE t \in [1..Cardinality(picked) -> picked] :
            \A i, j \in DOMAIN t : i # j => t[i] # t[j]

\* The network after the adders ran on both buses and the rows named.
Assembled(generators, storage_units) ==
    LET buses == <<[name |-> "B1", v_nom |-> V415], [name |-> "B2", v_nom |-> V415]>>
        n1 == add_buses(add_carriers(NewNetwork).net, buses).net
        n2 == add_generators(n1, PlainLibraries,
                             RowsNamed(GeneratorRows, generators)).net
    IN  add_storage_units(n2, PlainLibraries, RowsNamed(StorageRows, storage_units)).net

AssembledNetworks ==
    {Assembled(g, s) : g \in {{}, {"G1", "Generator_1"}},
                       s \in {{}, {"S1", "StorageUnit_1"}}}

InitStatic ==
    /\ network \in AssembledNetworks
    /\ tech_libraries = PlainLibraries
    /\ pc = "direct"
    /\ error = NoError
    /\ returned = "nothing"
    /\ failed_row = NoRow
    /\ calls = 0
    /\ arg = <<>>
    /\ before = network
    /\ series = EmptyDict
    /\ series_before = EmptyDict

\* A caller invokes _apply_static_constraints(constraints): whether it returns
\* or raises, the network keeps what the rows wrote.
ApplyStaticConstraints ==
    /\ pc = "direct"
    /\ \E constraints \in Tables(StaticRows) :
         LET r == apply_static_constraints(network, constraints) IN
         /\ network' = r.net
         /\ error' = r.err
         /\ failed_row' = r.row
         /\ pc' = IF r.ok THEN "returned" ELSE "raised"
         /\ returned' = IF r.ok THEN "None" ELSE "raised"
         /\ arg' = constraints
         /\ before' = network
         /\ calls' = calls + 1
         /\ UNCHANGED <<tech_libraries, series, series_before>>

NextStatic == ApplyStaticConstraints

SpecStatic == InitStatic /\ [][NextStatic]_vars

-----------------------------------------------------------------------------
(* Properties of setup_network *)

OneBusLists == {"generators", "storage_units", "loads"}
TwoBusLists == {"lines", "transformers", "links"}

\* The bus ids a registered component refers to.
BusRefs(list_name, row) ==
    IF list_name \in OneBusLists THEN {row.bus} ELSE {row.bus0, row.bus1}

VoltageGap(net, row) == Abs(net.buses[row.bus0].v_nom - net.buses[row.bus1].v_nom)

HasUnknownType(rows, lib) == \E i \in DOMAIN rows : rows[i].type \notin lib.types

\* C1: when a stage of setup_network fails, the error is raised to the caller
\* and no network is returned; the object then holds no network and its
\* technology-library cache is empty.
C1_FailedBuildTornDown ==
    /\ pc = "failed" =>
         /\ error # NoError
         /\ returned = "raised"
         /\ network = NoneNet
         /\ tech_libraries = EmptyDict
    /\ returned = "network" => pc = "done" /\ network # NoneNet

\* A build that got through every stage but the last, and was torn down.
C1_Witness ==
    /\ pc = "failed"
    /\ error.cause = "Finalize"
    /\ network = NoneNet
    /\ tech_libraries = EmptyDict

\* C2: after a successful setup_network every registered line, transformer,
\* link, generator, storage unit and load refers only to registered buses.
C2_ReferentialClosure ==
    pc = "done" =>
        \A list_name \in OneBusLists \cup TwoBusLists :
            \A name \in DOMAIN network[list_name] :
                BusRefs(list_name, network[list_name][name]) \subseteq DOMAIN network.buses

C5_TransformerVoltageInvariant ==
    pc = "done" =>
        \A name \in DOMAIN network.transformers :
            BusRefs("transformers", network.transformers[name]) \subseteq DOMAIN network.buses
                => VoltageGap(network, network.transformers[name]) <= VoltageTolerance

\* The loads of the data folder whose profile is not aligned with the
\* snapshots, in name or in timestamps.
MisalignedLoads ==
    {load.name : load \in
        {l \in LoadRows :
            LET profile == load_profile(l.profile_id, "load")
            IN  profile.index_name # "snapshot" \/ profile.index # Snapshots}}

\* C6: every registered load carries a series equal to the snapshots, and a
\* build that fails on a load whose profile is misaligned fails with a
\* profile-index error that identifies the load.
C6_ProfileMismatchAborts ==
    /\ network # NoneNet =>
         \A name \in DOMAIN network.loads : network.loads[name].p_set = Snapshots
    /\ (pc = "failed" /\ error.component = "loads" /\ failed_row.name \in MisalignedLoads) =>
         /\ error.cause \in {"ProfileIndexMismatch", "ProfileIndexName"}
         /\ failed_row.name \in error.mentions

\* C7: a transformer, generator or storage-unit row of a known type whose
\* library also defines an attribute the row supplies is registered, with the
\* row's value of that attribute.
C7_OverlayPrecedence ==
    /\ pc = "add_transformers" =>
         \A xfmr \in TransformerRows :
             (/\ xfmr.type \in tech_libraries["transformer"].types
              /\ "s_nom" \in tech_libraries["transformer"].cols)
             => LET r == add_transformers(network, tech_libraries, <<xfmr>>)
                IN  r.ok /\ r.net.transformers[xfmr.name].s_nom = xfmr.s_nom
    /\ pc = "add_generators" =>
         \A gen \in GeneratorRows :
             (/\ gen.type \in tech_libraries["generator"].types
              /\ "efficiency" \in tech_libraries["generator"].cols)
             => LET r == add_generators(network, tech_libraries, <<gen>>)
                IN  r.ok /\ r.net.generators[gen.name].efficiency = gen.efficiency
    /\ pc = "add_storage_units" =>
         \A unit \in StorageRows :
             (/\ unit.type \in tech_libraries["storage"].types
              /\ "p_nom" \in tech_libraries["storage"].cols)
             => LET r == add_storage_units(network, tech_libraries, <<unit>>)
                IN  r.ok /\ r.net.storage_units[unit.name].p_nom = unit.p_nom

-----------------------------------------------------------------------------
(* Properties of _apply_static_constraints *)

\* A cell that holds a number.
Literal(value) == value \notin {"None", "NaN"}

\* The row's component is registered in the collection its component_type names.
Registered(net, constraint) ==
    /\ constraint.component_type \in DOMAIN COMPONENT_MAP
    /\ constraint.component_id \in DOMAIN net[COMPONENT_MAP[constraint.component_type]]

\* No later row of the table supplies the same limit for the same component.
LastWord(constraints, i, limit) ==
    \A j \in DOMAIN constraints :
        (j > i /\ constraints[j].component_id = constraints[i].component_id)
            => ~Literal(constraints[j][limit])

\* C8: _apply_static_constraints returns for a table whose rows all target
\* registered components, and then every such component holds in p_max_pu
\* (p_min_pu) the last max_value (min_value) the table supplies for it.
C8_StaticConstraintApplied ==
    pc \in {"returned", "raised"} =>
        /\ (\A i \in DOMAIN arg : Registered(before, arg[i])) => pc = "returned"
        /\ pc = "returned" =>
             \A i \in DOMAIN arg :
                 LET row == arg[i]
                     target == network[COMPONENT_MAP[row.component_type]][row.component_id]
                 IN  Registered(before, row) =>
                        /\ (Literal(row.max_value) /\ LastWord(arg, i, "max_value"))
                               => target.p_max_pu = Float(row.max_value)
                        /\ (Literal(row.min_value) /\ LastWord(arg, i, "min_value"))
                               => target.p_min_pu = Float(row.min_value)

\* C9: a table with a row whose component type is not mapped, or whose
\* component_id is not registered in the mapped collection, makes
\* _apply_static_constraints raise InvalidConstraintTarget, and the collections
\* hold no component they did not hold before.
C9_InvalidTargetFails ==
    (pc \in {"returned", "raised"}
       /\ \E i \in DOMAIN arg : ~Registered(before, arg[i])) =>
        /\ pc = "raised"
        /\ error.cause = "InvalidConstraintTarget"
        /\ \A list_name \in OneBusLists \cup TwoBusLists :
               DOMAIN network[list_name] = DOMAIN before[list_name]

-----------------------------------------------------------------------------
(* _apply_dynamic_constraints called on an assembled network *)

COMPONENT_TIME_MAP ==
    [Generator |-> "generators", StorageUnit |-> "storage_units", Load |-> "loads",
     Line |-> "lines"]

\* The attributes network.generators_t has a DataFrame for.
TimeAttributes == {"p_set", "q_set", "p_min_pu", "p_max_pu", "marginal_cost"}

\* An empty start_time or end_time cell; a timestamp t is the tuple <<t>>.
NoTime == <<>>

\* The [start_time, end_time] cells of the rows.
Windows ==
    {<<NoTime, NoTime>>, <<<<2>>, <<2>>>>, <<<<2>>, NoTime>>, <<NoTime, <<1>>>>,
     <<<<NumSnapshots>>, <<2>>>>}

DynRow(id, attr, cid, value, window) ==
    [component_type |-> "Generator", component_id |-> id, constraint_type |-> attr,
     constraint_id |-> cid, value |-> value,
     start_time |-> window[1], end_time |-> window[2]]

DynRows ==
    {DynRow(id, "p_max_pu", cid, "0.5", w) :
        id \in {"G1", "Generator_1"}, cid \in {"c_lit", "c_prof"}, w \in Windows}
    \cup {DynRow("Generator_9", "p_max_pu", "c_lit", "0.5", <<<<2>>, <<2>>>>),
          DynRow("G1", "p_max_pu", "c_lit", "NaN", <<<<2>>, <<2>>>>),
          DynRow("G1", "p_nom", "c_lit", "0.5", <<NoTime, NoTime>>),
          DynRow("G1", "p_nom", "c_lit", "NaN", <<NoTime, NoTime>>),
          DynRow("G1", "q_limit", "c_lit", "0.5", <<NoTime, NoTime>>),
          [DynRow("G1", "p_max_pu", "c_lit", "0.5", <<NoTime, NoTime>>)
              EXCEPT !.component_type = "Relay"]}

\* constraints/constraint_profiles.csv grouped by constraint_id: the series
\* c_prof has a value for every snapshot but the last.
ProfileValue == "0.7"
ConstraintProfiles ==
    [cid \in {"c_prof"} |-> [t \in 1..(NumSnapshots - 1) |-> ProfileValue]]

\* What constraints/constraint_profiles.csv can hold.
ConstraintProfileFiles ==
    {[kind |-> k, rows |-> NoTable] : k \in FileKinds}
    \cup {[kind |-> "table", rows |-> ConstraintProfiles]}

\* DataLoader.load_constraint_profiles: the dict of the file, {} when the file
\* cannot be read.
load_constraint_profiles(file) ==
    LET r == pd_read_csv(file) IN IF r.ok THEN r.table ELSE EmptyDict

\* _parse_time_window: snapshots.slice_indexer(start, end), a slice of
\* positions [start, stop) counted from 0.
parse_time_window(snapshots, constraint) ==
    LET before_start == {i \in DOMAIN snapshots :
                            snapshots[i] < constraint.start_time[1]}
        upto_end == {i \in DOMAIN snapshots : snapshots[i] <= constraint.end_time[1]}
    IN  [start |-> IF constraint.start_time = NoTime THEN 0
                   ELSE Cardinality(before_start),
         stop |-> IF constraint.end_time = NoTime THEN Len(snapshots)
                  ELSE Cardinality(upto_end)]

\* The rows of the snapshot index a slice of positions selects.
Sliced(time_slice) == {i \in 1..NumSnapshots : time_slice.start < i /\ i <= time_slice.stop}

\* The value written at a snapshot: a profile series is aligned on the
\* index, NaN where it has no entry; a scalar is broadcast.
ValueAt(profiles, constraint, t) ==
    IF constraint.constraint_id \in DOMAIN profiles
    THEN LET profile == profiles[constraint.constraint_id]
         IN  IF t \in DOMAIN profile THEN profile[t] ELSE "NaN"
    ELSE constraint.value

\* time_series.loc[time_slice, component_id] = value: a column the DataFrame
\* lacks is created, NaN in every row, before the sliced rows are written.
LocSetSlice(time_series, time_slice, profiles, constraint) ==
    LET id == constraint.component_id
        column == IF id \in DOMAIN time_series THEN time_series[id]
                  ELSE [i \in 1..NumSnapshots |-> "NaN"]
    IN  WithRow(time_series, id,
                [i \in 1..NumSnapshots |->
                    IF i \in Sliced(time_slice)
                    THEN ValueAt(profiles, constraint, Snapshots[i])
                    ELSE column[i]])

DynOk(net, time_series) ==
    [ok |-> TRUE, net |-> net, series |-> time_series, err |-> NoError, row |-> NoRow]
DynRaise(net, time_series, err, constraint) ==
    [ok |-> FALSE, net |-> net, series |-> time_series, err |-> err,
     row |-> [name |-> constraint.component_id, type |-> constraint.component_type]]

\* The loop body of _apply_dynamic_constraints for one row.  positional tells
\* whether the installed pandas lets .loc take a slice of positions on a
\* DatetimeIndex (a FutureWarning) or raises TypeError.
ApplyDynamicConstraint(net, time_series, profiles, constraint, positional) ==
    IF constraint.component_type \notin DOMAIN COMPONENT_TIME_MAP
    THEN DynRaise(net, time_series,
                  Raised("KeyError", "ComponentTimeMap", {constraint.component_type}),
                  constraint)
    ELSE IF constraint.constraint_type \in TimeAttributes
    THEN IF positional
         THEN DynOk(net, LocSetSlice(time_series,
                                     parse_time_window(Snapshots, constraint),
                                     profiles, constraint))
         ELSE DynRaise(net, time_series,
                       Raised("TypeError", "PositionalSlice", {"DatetimeIndex"}),
                       constraint)
    ELSE IF constraint.constraint_type \in DOMAIN NaNRow("generators")
    THEN DynOk([net EXCEPT !.generators =
                   LocSet(@, "generators", constraint.component_id,
                          constraint.constraint_type,
                          ValueAt(profiles, constraint, 0))],
               time_series)
    ELSE DynRaise(net, time_series,
                  NetworkSetupError(constraint.component_type, "InvalidConstraint",
                                    {constraint.constraint_type, constraint.component_id}),
                  constraint)

RECURSIVE ApplyDynamicRows(_, _, _, _, _, _)
ApplyDynamicRows(net, time_series, profiles, constraints, positional, i) ==
    IF i > Len(constraints) THEN DynOk(net, time_series)
    ELSE LET r == ApplyDynamicConstraint(net, time_series, profiles, constraints[i],
                                         positional)
         IN  IF r.ok
             THEN ApplyDynamicRows(r.net, r.series, profiles, constraints, positional, i + 1)
             ELSE r

\* _apply_dynamic_constraints
apply_dynamic_constraints(net, time_series, profiles, constraints, positional) ==
    ApplyDynamicRows(net, time_series, profiles, constraints, positional, 1)

\* generators_t.p_max_pu of a network just assembled has no column; an
\* earlier application of a profile to G1 leaves it one.
StartSeries ==
    {EmptyDict,
     apply_dynamic_constraints(Assembled({"G1", "Generator_1"}, {}), EmptyDict,
         ConstraintProfiles,
         <<DynRow("G1", "p_max_pu", "c_prof", "0.5", <<NoTime, NoTime>>)>>, TRUE).series}

InitDyn ==
    /\ network = Assembled({"G1", "Generator_1"}, {})
    /\ tech_libraries = PlainLibraries
    /\ pc = "direct"
    /\ error = NoError
    /\ returned = "nothing"
    /\ failed_row = NoRow
    /\ calls = 0
    /\ arg = <<>>
    /\ before = network
    /\ series \in StartSeries
    /\ series_before = series

\* A caller invokes _apply_dynamic_constraints(constraints, profiles) with the
\* profiles load_constraint_profiles gave.
ApplyDynamicConstraints ==
    /\ pc = "direct"
    /\ \E constraints \in Tables(DynRows), file \in ConstraintProfileFiles,
          positional \in BOOLEAN :
         LET r == apply_dynamic_constraints(network, series,
                      load_constraint_profiles(file), constraints, positional)
         IN
         /\ network' = r.net
         /\ series' = r.series
         /\ error' = r.err
         /\ failed_row' = r.row
         /\ pc' = IF r.ok THEN "returned" ELSE "raised"
         /\ returned' = IF r.ok THEN "None" ELSE "raised"
         /\ arg' = constraints
         /\ before' = network
         /\ series_before' = series
         /\ calls' = calls + 1
         /\ UNCHANGED tech_libraries

NextDyn == ApplyDynamicConstraints

SpecDyn == InitDyn /\ [][NextDyn]_vars

\* p_max_pu of a generator at a snapshot: its column of generators_t.p_max_pu
\* when it has one, its static p_max_pu otherwise.
Effective(net, time_series, id, i) ==
    IF id \in DOMAIN time_series THEN time_series[id][i] ELSE net.generators[id].p_max_pu

\* The snapshot lies within the row's window, open on a side without bound.
InWindow(constraint, t) ==
    /\ constraint.start_time = NoTime \/ constraint.start_time[1] <= t
    /\ constraint.end_time = NoTime \/ t <= constraint.end_time[1]

\* C10: a dynamic constraint on p_max_pu of a registered generator is applied,
\* a literal value is written at exactly the snapshots within its window, and
\* p_max_pu at every snapshot outside the window, and of every other
\* generator, is what it was.
C10_DynamicWindowing ==
    (/\ pc \in {"returned", "raised"}
     /\ Len(arg) = 1
     /\ arg[1].component_type = "Generator"
     /\ arg[1].constraint_type = "p_max_pu"
     /\ arg[1].component_id \in DOMAIN before.generators) =>
        /\ pc = "returned"
        /\ \A i \in 1..NumSnapshots :
               IF InWindow(arg[1], Snapshots[i])
               THEN arg[1].constraint_id = "c_lit"
                        => Effective(network, series, arg[1].component_id, i) = arg[1].value
               ELSE Effective(network, series, arg[1].component_id, i)
                        = Effective(before, series_before, arg[1].component_id, i)
        /\ \A id \in DOMAIN before.generators \ {arg[1].component_id} :
               \A i \in 1..NumSnapshots :
                   Effective(network, series, id, i)
                       = Effective(before, series_before, id, i)

-----------------------------------------------------------------------------
(* Properties of setup_network: errors and order *)

\* C11: every failure of setup_network reaches the caller as a
\* NetworkSetupError that carries the name of a component or stage.
C11_SingleTypedError ==
    pc = "failed" => error.exc = "NetworkSetupError" /\ error.component # "none"

\* C12: the stages run one after another in the order of StageOrder; a stage
\* is entered only from the stage before it, by passing it; a failure ends
\* the call, and while an error is recorded no stage is in progress.
C12_StagesInOrder ==
    [][/\ pc' # pc =>
            \/ \E i \in 1..(Len(StageOrder) - 1) :
                   pc = StageOrder[i] /\ pc' = StageOrder[i + 1] /\ error' = NoError
            \/ /\ pc \in {StageOrder[i] : i \in 1..(Len(StageOrder) - 1)}
               /\ pc' = "failed"
               /\ error' # NoError
            \/ pc \in {"idle", "done", "failed"} /\ pc' = StageOrder[1]
       /\ error' # NoError => pc' = "failed"
       /\ pc = "failed" => network' = network /\ tech_libraries' = tech_libraries
      ]_vars

\* A build that failed while assembling lines, after buses and transformers
\* were registered: no later stage ran.
C12_Witness ==
    /\ pc = "failed"
    /\ error.component = "lines"
    /\ calls = 1

-----------------------------------------------------------------------------
(* setup_network of src/src/network_setup.py *)

\* The classes in the order setup_network of src/src calls their adders, each
\* with its collection and its file.
LegacyOrder ==
    <<"buses", "generators", "storage_units", "loads", "lines", "transformers", "links">>

LegacyFileName(list_name) ==
    CASE list_name = "buses" -> "buses.csv"
      [] list_name = "generators" -> "generators.csv"
      [] list_name = "storage_units" -> "storage_units.csv"
      [] list_name = "loads" -> "loads.csv"
      [] list_name = "lines" -> "lines.csv"
      [] list_name = "transformers" -> "transformers.csv"
      [] OTHER -> "links.csv"

\* The rows the files of the data folder are made of.
LegacyRows(list_name) ==
    CASE list_name = "buses" ->
            {[name |-> "B1", v_nom |-> V415], [name |-> "B2", v_nom |-> V800]}
      [] list_name = "generators" -> {[name |-> "G1", bus |-> "B1"]}
      [] list_name = "storage_units" -> {[name |-> "S1", bus |-> "B1"]}
      [] list_name = "loads" ->
            {[name |-> "L1", bus |-> "B1", p_set |-> Snapshots],
             [name |-> "L2", bus |-> "B2",
              p_set |-> SubSeq(Snapshots, 1, NumSnapshots - 1)]}
      [] list_name = "lines" -> {[name |-> "Ln1", bus0 |-> "B1", bus1 |-> "B2"]}
      [] list_name = "transformers" -> {[name |-> "T1", bus0 |-> "B1", bus1 |-> "B2"]}
      [] OTHER -> {[name |-> "K1", bus0 |-> "B1", bus1 |-> "B2"]}

\* The attributes network.add is given for a row: row.get(key, default).
LegacyRecord(list_name, row) ==
    CASE list_name = "buses" -> [v_nom |-> row.v_nom]
      [] list_name = "generators" ->
            [bus |-> row.bus, p_nom |-> "0.0", efficiency |-> "0.0",
             p_min_pu |-> "0.0", p_max_pu |-> "0.0"]
      [] list_name = "storage_units" ->
            [bus |-> row.bus, p_nom |-> "0.0", p_min_pu |-> "0.0", p_max_pu |-> "0.0"]
      [] list_name = "loads" ->
            [bus |-> row.bus, p_set |-> row.p_set, p_min_pu |-> "NaN", p_max_pu |-> "NaN"]
      [] list_name = "lines" ->
            [bus0 |-> row.bus0, bus1 |-> row.bus1, p_min_pu |-> "NaN", p_max_pu |-> "NaN"]
      [] list_name = "transformers" ->
            [bus0 |-> row.bus0, bus1 |-> row.bus1, s_nom |-> "0.0",
             p_min_pu |-> "NaN", p_max_pu |-> "NaN"]
      [] OTHER ->
            [bus0 |-> row.bus0, bus1 |-> row.bus1, type |-> "None",
             p_min_pu |-> "0", p_max_pu |-> "1"]

\* The loop of an adder of src/src over the rows of its table.  For a load,
\* pd.Series(values, index=self.network.snapshots) raises ValueError when the
\* row's p_set has not one value per snapshot.
RECURSIVE LegacyAddRows(_, _, _, _)
LegacyAddRows(net, list_name, data, i) ==
    IF i > Len(data) THEN Ok(net)
    ELSE LET row == data[i]
             id == [name |-> row.name, type |-> "None"]
         IN  IF list_name = "loads" /\ Len(row.p_set) # Len(Snapshots)
             THEN Raise(net, Raised("ValueError", "SeriesLength", {row.name}), id)
             ELSE IF row.name \in DOMAIN net[list_name]
             THEN Raise(net, DuplicateName(row.name), id)
             ELSE LegacyAddRows(
                      [net EXCEPT ![list_name] =
                          WithRow(@, row.name, LegacyRecord(list_name, row))],
                      list_name, data, i + 1)

\* _add_buses .. _add_links of src/src (and _add_component): read the table;
\* an empty table is a warning and a return.
legacy_add(net, list_name, file) ==
    LET data == legacy_read_csv(LegacyFileName(list_name), file).table
    IN  IF data = NoTable THEN Ok(net) ELSE LegacyAddRows(net, list_name, data, 1)

LegacyStage(list_name) ==
    CASE list_name = "buses" -> "legacy_buses"
      [] list_name = "generators" -> "legacy_generators"
      [] list_name = "storage_units" -> "legacy_storage_units"
      [] list_name = "loads" -> "legacy_loads"
      [] list_name = "lines" -> "legacy_lines"
      [] list_name = "transformers" -> "legacy_transformers"
      [] OTHER -> "legacy_links"

\* Network_Setup.__init__ of src/src
InitLegacy ==
    /\ network = NewNetwork
    /\ tech_libraries = EmptyDict
    /\ pc = "legacy_idle"
    /\ error = NoError
    /\ returned = "nothing"
    /\ failed_row = NoRow
    /\ calls = 0
    /\ arg = <<>>
    /\ before = NewNetwork
    /\ series = EmptyDict
    /\ series_before = EmptyDict

\* A caller invokes setup_network of src/src.
LegacyCall ==
    /\ pc \in {"legacy_idle", "legacy_done", "legacy_raised"}
    /\ calls < MaxCalls
    /\ calls' = calls + 1
    /\ pc' = LegacyStage(LegacyOrder[1])
    /\ error' = NoError
    /\ returned' = "nothing"
    /\ failed_row' = NoRow
    /\ UNCHANGED <<network, tech_libraries, direct>>

\* The k-th adder of setup_network of src/src.  There is no try block: an
\* exception leaves setup_network as it is, and the network keeps what was
\* registered.
LegacyAdder(k) ==
    /\ \E file \in FileContents(LegacyRows(LegacyOrder[k])) :
         LET r == legacy_add(network, LegacyOrder[k], file) IN
         /\ network' = r.net
         /\ error' = r.err
         /\ failed_row' = r.row
         /\ pc' = IF ~r.ok THEN "legacy_raised"
                  ELSE IF k = Len(LegacyOrder) THEN "legacy_done"
                  ELSE LegacyStage(LegacyOrder[k + 1])
         /\ returned' = IF ~r.ok THEN "raised"
                        ELSE IF k = Len(LegacyOrder) THEN "None" ELSE returned
         /\ UNCHANGED <<tech_libraries, calls, direct>>

LegacyAddBuses ==
    /\ pc = "legacy_buses"
    /\ LegacyAdder(1)

LegacyAddGenerators ==
    /\ pc = "legacy_generators"
    /\ LegacyAdder(2)

LegacyAddStorageUnits ==
    /\ pc = "legacy_storage_units"
    /\ LegacyAdder(3)

LegacyAddLoads ==
    /\ pc = "legacy_loads"
    /\ LegacyAdder(4)

LegacyAddLines ==
    /\ pc = "legacy_lines"
    /\ LegacyAdder(5)

LegacyAddTransformers ==
    /\ pc = "legacy_transformers"
    /\ LegacyAdder(6)

LegacyAddLinks ==
    /\ pc = "legacy_links"
    /\ LegacyAdder(7)

NextLegacy ==
    \/ LegacyCall
    \/ LegacyAddBuses
    \/ LegacyAddGenerators
    \/ LegacyAddStorageUnits
    \/ LegacyAddLoads
    \/ LegacyAddLines
    \/ LegacyAddTransformers
    \/ LegacyAddLinks

SpecLegacy == InitLegacy /\ [][NextLegacy]_vars

\* Both implementations of setup_network the repository holds.
InitBoth == Init \/ InitLegacy
NextBoth == Next \/ NextLegacy
SpecBoth == InitBoth /\ [][NextBoth]_vars

-----------------------------------------------------------------------------
(* Properties of the order of assembly *)

\* component_order of _add_components, by collection.
component_order ==
    <<"buses", "transformers", "lines", "generators", "storage_units", "links", "loads">>

\* The position of setup_network at which the adder of a collection runs.
AdderStage(list_name) ==
    CASE list_name = "buses" -> "add_buses"
      [] list_name = "transformers" -> "add_transformers"
      [] list_name = "lines" -> "add_lines"
      [] list_name = "generators" -> "add_generators"
      [] list_name = "storage_units" -> "add_storage_units"
      [] list_name = "links" -> "add_links"
      [] OTHER -> "add_loads"

\* When the adder of the k-th class of an order is about to run, the
\* collections of that class and of the classes after it are empty.
LaterClassesEmpty(order, k) ==
    \A j \in k..Len(order) : network[order[j]] = EmptyDict

\* C13: in _add_components the classes are assembled in the order Bus,
\* Transformer, Line, Generator, StorageUnit, Link, Load; setup_network of
\* src/src assembles them in the order Bus, Generator, StorageUnit, Load, Line,
\* Transformer, Link.  In both, no component of a class is registered before
\* the adders of all classes before it in that order have run, and buses come
\* first.
C13_AssemblyOrder ==
    /\ \A k \in DOMAIN component_order :
           pc = AdderStage(component_order[k]) => LaterClassesEmpty(component_order, k)
    /\ \A k \in DOMAIN LegacyOrder :
           (pc = LegacyStage(LegacyOrder[k]) /\ calls = 1)
               => LaterClassesEmpty(LegacyOrder, k)
    /\ (pc \in {"add_buses", "legacy_buses"} /\ calls = 1) =>
           \A list_name \in OneBusLists \cup TwoBusLists : network[list_name] = EmptyDict

\* _add_components is about to add loads: buses, generators and links are
\* registered.
C13_Witness ==
    /\ pc = "add_loads"
    /\ network.buses # EmptyDict
    /\ network.generators # EmptyDict
    /\ network.links # EmptyDict
    /\ network.loads = EmptyDict

\* C13 as stated: wherever an adder of a class is about to run on a fresh
\* object, every class after it in the order Bus, Transformer, Line,
\* Generator, StorageUnit, Link, Load has an empty collection.
C13_ClaimedOrderEverywhere ==
    \A k \in DOMAIN component_order :
        (pc \in {AdderStage(component_order[k]), LegacyStage(component_order[k])}
           /\ calls = 1)
            => LaterClassesEmpty(component_order, k)

-----------------------------------------------------------------------------
(* The loaders called on a data folder *)

\* The names a caller asks the read layer for.
RequestedNames == {"buses.csv", "links.csv", "secrets.csv", "../buses.csv"}

InitRead ==
    /\ network = NewNetwork
    /\ tech_libraries = EmptyDict
    /\ pc = "direct"
    /\ error = NoError
    /\ returned = "nothing"
    /\ failed_row = NoRow
    /\ calls = 0
    /\ arg = <<>>
    /\ before = NewNetwork
    /\ series = EmptyDict
    /\ series_before = EmptyDict

\* The call of a loader ended: what escaped it, and what it returned.
Loaded(loader, name, file, escaped, result) ==
    /\ pc' = IF escaped = NoError THEN "returned" ELSE "raised"
    /\ returned' = IF escaped = NoError THEN "table" ELSE "raised"
    /\ error' = escaped
    /\ arg' = [loader |-> loader, name |-> name, file |-> file, result |-> result]
    /\ calls' = calls + 1
    /\ UNCHANGED <<network, tech_libraries, failed_row, before, series, series_before>>

\* DataLoader.read_csv, and the loaders that only call it (load_component,
\* load_constraint, load_dynamic_constraints, load_component_constraints).
ReadCsv ==
    /\ pc = "direct"
    /\ \E name \in RequestedNames, file \in FileContents(BusRows) :
         LET r == read_csv(name, file)
         IN  Loaded("read_csv", name, file, r.err, r.table)

LoadProfile ==
    /\ pc = "direct"
    /\ \E profile_id \in ProfileIds :
         Loaded("load_profile", profile_id, ProfileFiles[profile_id], NoError,
                load_profile(profile_id, "load_profiles"))

LoadConstraintProfiles ==
    /\ pc = "direct"
    /\ \E file \in ConstraintProfileFiles :
         Loaded("load_constraint_profiles", "constraint_profiles.csv", file, NoError,
                load_constraint_profiles(file))

LoadTechLibrary ==
    /\ pc = "direct"
    /\ \E files \in LibraryFiles, name \in DOMAIN PlainLibraries,
          kind \in FileKinds \cup {"table"} :
         LET file == [kind |-> kind,
                      rows |-> IF kind = "table" THEN files[name] ELSE NoTable]
         IN  Loaded("load_tech_library", name, file, NoError, load_tech_library(file))

\* Network_Setup._read_csv and DataLoader.read_csv of src/src
LegacyReadCsv ==
    /\ pc = "direct"
    /\ \E name \in RequestedNames, file \in FileContents(LegacyRows("buses")) :
         LET r == legacy_read_csv(name, file)
         IN  Loaded("legacy_read_csv", name, file, r.err, r.table)

NextRead ==
    \/ ReadCsv
    \/ LoadProfile
    \/ LoadConstraintProfiles
    \/ LoadTechLibrary
    \/ LegacyReadCsv

SpecRead == InitRead /\ [][NextRead]_vars

\* C14: a request for a file name outside the allow-list raises a
\* DisallowedSource error to the caller of the read operation.
C14_DisallowedSourceEscapes ==
    (/\ pc \in {"returned", "raised"}
     /\ arg.loader = "legacy_read_csv"
     /\ arg.name \notin allowed_files) =>
        /\ pc = "raised"
        /\ error.cause = "DisallowedSource"

\* The value a loader returns for a source it could not read.
EmptyResult(loader) ==
    CASE loader = "load_profile" -> NoProfile
      [] loader = "load_constraint_profiles" -> EmptyDict
      [] loader = "load_tech_library" -> EmptyLib
      [] OTHER -> NoTable

\* C15: a loader asked for a source that is missing, empty or unreadable
\* returns its empty result and raises nothing.
C15_UnavailableSourceIsEmpty ==
    (pc \in {"returned", "raised"} /\ arg.file.kind \in FileKinds) =>
        /\ pc = "returned"
        /\ error = NoError
        /\ arg.result = EmptyResult(arg.loader)

\* read_csv returned pd.DataFrame() for a file that cannot be parsed.
C15_Witness ==
    /\ pc = "returned"
    /\ arg.loader = "read_csv"
    /\ arg.file.kind = "unreadable"
    /\ arg.result = NoTable
    /\ error = NoError

-----------------------------------------------------------------------------
(* Properties of library validation and of registration *)

\* C16: a build that fails because a technology library lacks a column
\* fails in _load_tech_libraries, with the error of _validate_tech_library.
C16_MissingColumnFatalAtLoad ==
    (pc = "failed" /\ error.cause \in {"MissingLibraryColumns", "MissingLibraryField"}) =>
        /\ error.component = "Tech Libraries"
        /\ error.cause = "MissingLibraryColumns"

\* The rows of a table whose name is registered already or borne by a row
\* before them.
Collisions(rows, registered) ==
    {j \in DOMAIN rows :
        rows[j].name \in registered \cup {rows[i].name : i \in 1..(j - 1)}}

FirstCollision(rows, registered) ==
    CHOOSE j \in Collisions(rows, registered) :
        \A k \in Collisions(rows, registered) : j <= k

\* The adder raised the duplicate-name error at the first colliding row, and
\* the network is what the rows before it made of it: the records registered
\* before the call are what they were.
Rejected(r, kept, net, list_name) ==
    /\ ~r.ok
    /\ r.err.cause = "DuplicateName"
    /\ kept.ok
    /\ r.net = kept.net
    /\ \A name \in DOMAIN net[list_name] : r.net[list_name][name] = net[list_name][name]

\* C17: an adder given a table with a row whose name collides with a
\* registered component of its class, or with an earlier row, rejects that
\* row, and the collection holds exactly what it held before that row.
C17_DuplicateRejected ==
    /\ pc = "add_buses" =>
         \A t \in Tables(BusRows) :
             Collisions(t, DOMAIN network.buses) # {} =>
                 LET j == FirstCollision(t, DOMAIN network.buses)
                 IN  /\ add_buses(network, t).err.mentions = {t[j].name}
                     /\ Rejected(add_buses(network, t),
                                 add_buses(network, SubSeq(t, 1, j - 1)), network, "buses")
    /\ \A k \in DOMAIN LegacyOrder :
         pc = LegacyStage(LegacyOrder[k]) =>
           LET list_name == LegacyOrder[k]
               rows == {row \in LegacyRows(list_name) :
                           list_name = "loads" => Len(row.p_set) = Len(Snapshots)}
               File(t) == [kind |-> "table", rows |-> t]
           IN  \A t \in Tables(rows) :
                   Collisions(t, DOMAIN network[list_name]) # {} =>
                       LET j == FirstCollision(t, DOMAIN network[list_name])
                       IN  Rejected(legacy_add(network, list_name, File(t)),
                                    legacy_add(network, list_name, File(SubSeq(t, 1, j - 1))),
                                    network, list_name)

\* A second setup_network of src/src on the same object: the row B1 collided
\* with the bus registered by the first, which is still there.
C17_Witness ==
    /\ pc = "legacy_raised"
    /\ calls = 2
    /\ error.cause = "DuplicateName"
    /\ failed_row.name = "B1"
    /\ "B1" \in DOMAIN network.buses
    /\ network.buses["B1"].v_nom = V415

-----------------------------------------------------------------------------
(* Properties of a rebuild *)

\* C18: setup_network invoked again on the object whose first run returned
\* the network rebuilds it: the carrier stage, which reads no configuration,
\* passes and leaves the carriers the first run registered, and the run does
\* not end with the network torn down by that stage.
C18_IdempotentRebuild ==
    (calls >= 2 /\ before # NoneNet /\ before.carriers = CARRIER_CONFIG) =>
        /\ pc = "add_carriers" =>
             /\ add_carriers(network).ok
             /\ add_carriers(network).net.carriers = before.carriers
        /\ (pc = "failed" /\ error.cause = "DuplicateName" /\ failed_row = NoRow) =>
             network # NoneNet

-----------------------------------------------------------------------------
(* Properties of _apply_dynamic_constraints: a row without a value *)

\* C19: a table of one dynamic constraint whose constraint_id names no
\* constraint profile and whose value cell is empty makes
\* _apply_dynamic_constraints raise, and generators_t.p_max_pu is what it was.
C19_NoValueFailsFatally ==
    (/\ pc \in {"returned", "raised"}
     /\ Len(arg) = 1
     /\ arg[1].constraint_id \notin DOMAIN ConstraintProfiles
     /\ ~Literal(arg[1].value)) =>
        /\ pc = "raised"
        /\ series = series_before

-----------------------------------------------------------------------------
(* Properties of the adders: every row registered *)

DistinctNames(t) == \A i, j \in DOMAIN t : i # j => t[i].name # t[j].name

\* The adder returned and every name of the table is in the collection.
RegistersAll(r, list_name, t) ==
    /\ r.ok
    /\ \A i \in DOMAIN t : t[i].name \in DOMAIN r.net[list_name]

\* The rows of loads.csv whose bus is registered and whose profile file holds
\* one row for each snapshot.
AlignedLoadRows(net) ==
    {load \in LoadRows :
        /\ load.bus \in DOMAIN net.buses
        /\ ProfileFiles[load.profile_id] = [kind |-> "table", rows |-> Snapshots]}

\* C20: an adder run on a table of rows with distinct names, none of them
\* registered yet, registers the name of every row: _add_buses and _add_loads
\* of hybrid_renewable_pypsa (the loads on registered buses, with profiles
\* aligned on the snapshots), and every adder of src/src.
C20_EveryRowRegistered ==
    /\ pc = "add_buses" =>
         \A t \in Tables(BusRows) :
             DistinctNames(t) => RegistersAll(add_buses(network, t), "buses", t)
    /\ pc = "add_loads" =>
         \A t \in Tables(AlignedLoadRows(network)) :
             DistinctNames(t) => RegistersAll(add_loads(network, t), "loads", t)
    /\ \A k \in DOMAIN LegacyOrder :
         (pc = LegacyStage(LegacyOrder[k]) /\ calls = 1) =>
           LET list_name == LegacyOrder[k]
               rows == {row \in LegacyRows(list_name) :
                           list_name = "loads" => Len(row.p_set) = Len(Snapshots)}
           IN  \A t \in Tables(rows) :
                   DistinctNames(t) =>
                       RegistersAll(legacy_add(network, list_name,
                                               [kind |-> "table", rows |-> t]),
                                    list_name, t)

-----------------------------------------------------------------------------
(* Properties of topology validation *)

\* C21: _validate_network_topology is one pass of three checks, connections,
\* then voltages, then the engine's consistency check.  The error raised is
\* that of the first check that fails: a network with an invalid connection
\* fails with a connection error whatever its voltages, a voltage error is
\* raised only when the connections passed, an engine error only when both
\* passed, and the stage is passed only when no check failed.
C21_ValidationFailFast ==
    [][pc = "validate" =>
         LET connections == check_component_connections(network)
             voltages == check_voltage_levels(network)
         IN  /\ pc' \in {"finalize", "failed"}
             /\ pc' = "finalize" <=> error' = NoError
             /\ pc' = "finalize" =>
                  connections = {} /\ voltages = {} /\ network' = network
             /\ connections # {} => pc' = "failed" /\ error' \in connections
             /\ (connections = {} /\ voltages # {}) =>
                  pc' = "failed" /\ error' \in voltages
             /\ (pc' = "failed" /\ error' \notin connections \cup voltages) =>
                  /\ connections = {} /\ voltages = {}
                  /\ error' = EngineError("ConsistencyCheck")
    ]_vars

\* A build that failed validation on a connection.
C21_Witness ==
    /\ pc = "failed"
    /\ error.cause = "MissingBusReference"
    /\ error.exc = "NetworkSetupError"

\* The references of registered components to bus ids that are no bus.
Dangling(net) ==
    UNION {UNION {{[name |-> name, bus |-> bus] :
                      bus \in BusRefs(list_name, net[list_name][name]) \ DOMAIN net.buses} :
                  name \in DOMAIN net[list_name]} :
           list_name \in OneBusLists \cup TwoBusLists}

\* C22: a build whose assembled network holds a generator, load, storage
\* unit, link, line or transformer that refers to a bus id absent from the
\* buses fails in validation with a missing-bus-reference error that names
\* such a component and the bus it lacks.
C22_MissingBusNamed ==
    [][(pc = "validate" /\ Dangling(network) # {}) =>
          /\ pc' = "failed"
          /\ error'.cause = "MissingBusReference"
          /\ \E d \in Dangling(network) : {d.name, d.bus} \subseteq error'.mentions
    ]_vars

-----------------------------------------------------------------------------
(* Properties of assembly: bus references *)

\* C23: the adders that run after _add_buses reject a row that refers to a
\* bus not registered yet: at no point of a build, in assembly or after it,
\* does the network hold a component that refers to a bus it does not hold.
C23_EagerBusValidation ==
    (network # NoneNet /\ pc \in {StageOrder[i] : i \in DOMAIN StageOrder}) =>
        Dangling(network) = {}

-----------------------------------------------------------------------------
(* Properties of _add_constraints *)

\* Data folder: constraints/dynamic_constraints.csv, which _add_constraints
\* loads with load_dynamic_constraints: p_max_pu of G1 is 0.5 at every
\* snapshot.
DynamicConstraintsFile ==
    <<DynRow("G1", "p_max_pu", "c_lit", "0.5", <<NoTime, NoTime>>)>>

\* C24: after setup_network has returned the network, every row of the
\* dynamic constraints of the configuration whose generator is registered is
\* reflected in p_max_pu of that generator at the snapshots of its window.
C24_ConstraintsApplied ==
    pc = "done" =>
        \A i \in DOMAIN DynamicConstraintsFile :
            LET constraint == DynamicConstraintsFile[i] IN
            constraint.component_id \in DOMAIN network.generators =>
                \A t \in 1..NumSnapshots :
                    InWindow(constraint, Snapshots[t]) =>
                        Effective(network, series, constraint.component_id, t)
                            = constraint.value

-----------------------------------------------------------------------------
(* Properties of the adders: a source without rows *)

\* A source table that is missing, of zero bytes, unreadable, or without rows.
UnavailableFiles ==
    {[kind |-> k, rows |-> NoTable] : k \in FileKinds}
    \cup {[kind |-> "table", rows |-> NoTable]}

\* The adder of a collection of hybrid_renewable_pypsa run on a table.
HybridAdd(list_name, net, libs, table) ==
    CASE list_name = "buses" -> add_buses(net, table)
      [] list_name = "transformers" -> add_transformers(net, libs, table)
      [] list_name = "lines" -> add_lines(net, table)
      [] list_name = "generators" -> add_generators(net, libs, table)
      [] list_name = "storage_units" -> add_storage_units(net, libs, table)
      [] list_name = "links" -> add_links(net, table)
      [] OTHER -> add_loads(net, table)

\* C25: an adder whose source table is missing or empty reads a table without
\* rows, returns without raising and leaves the network as it was, so that
\* assembly goes on with the next class: every adder of
\* hybrid_renewable_pypsa, and every adder of src/src.
C25_EmptySourceAbsorbed ==
    /\ \A k \in DOMAIN component_order :
         pc = AdderStage(component_order[k]) =>
           \A file \in UnavailableFiles :
               LET read == read_csv(LegacyFileName(component_order[k]), file)
                   r == HybridAdd(component_order[k], network, tech_libraries, read.table)
               IN  /\ read.err = NoError
                   /\ read.table = NoTable
                   /\ r.ok
                   /\ r.net = network
    /\ \A k \in DOMAIN LegacyOrder :
         pc = LegacyStage(LegacyOrder[k]) =>
           \A file \in UnavailableFiles :
               LET r == legacy_add(network, LegacyOrder[k], file)
               IN  r.ok /\ r.net = network

\* Three adders in a row found no rows and the fourth is about to run.
C25_Witness ==
    /\ pc = "add_generators"
    /\ error = NoError
    /\ network.buses = EmptyDict
    /\ network.transformers = EmptyDict
    /\ network.lines = EmptyDict

-----------------------------------------------------------------------------
(* Properties of setup_network after a failure *)

\* C26: a failed setup_network leaves the object without a network, and an
\* object without a network never gets one again: a later setup_network on
\* it gets no further than _add_carriers, fails, and returns no network.
C26_FailedObjectStaysFailed ==
    [][/\ pc' = "failed" => network' = NoneNet
       /\ network = NoneNet =>
            /\ network' = NoneNet
            /\ pc' \in {"load_tech", "add_carriers", "failed"}
            /\ returned' # "network"
            /\ pc = "add_carriers" => pc' = "failed"
    ]_vars

\* The second call on an object whose first call failed has failed too.
C26_Witness ==
    /\ pc = "failed"
    /\ calls = 2
    /\ before = NoneNet
    /\ error.cause = "NoneNetwork"

-----------------------------------------------------------------------------
(* Properties of _apply_static_constraints: what it leaves alone *)

\* C27: whatever the table of constraint rows, and whether
\* _apply_static_constraints returns or raises, the names registered in
\* generators, storage_units, lines, loads and transformers are those
\* registered before the call.
C27_MembershipUnchanged ==
    pc \in {"returned", "raised"} =>
        \A component_type \in DOMAIN COMPONENT_MAP :
            DOMAIN network[COMPONENT_MAP[component_type]]
                = DOMAIN before[COMPONENT_MAP[component_type]]

\* The row supplies the limit named and not the other one, whose cell is
\* empty or whose column the table lacks.
SuppliesOnly(constraint, limit, other) ==
    /\ Literal(constraint[limit])
    /\ ~Literal(constraint[other])

\* C28: a table of one row that targets a registered component and supplies
\* only max_value (only min_value) leaves p_min_pu (p_max_pu) of the
\* component, its other attributes and every other component as they were.
C28_OtherLimitUntouched ==
    (/\ pc \in {"returned", "raised"}
     /\ Len(arg) = 1
     /\ Registered(before, arg[1])
     /\ SuppliesOnly(arg[1], "max_value", "min_value")
          \/ SuppliesOnly(arg[1], "min_value", "max_value")) =>
        LET list_name == COMPONENT_MAP[arg[1].component_type]
            id == arg[1].component_id
            written == IF Literal(arg[1].max_value) THEN "p_max_pu" ELSE "p_min_pu"
        IN  /\ \A other \in DOMAIN COMPONENT_MAP :
                  COMPONENT_MAP[other] # list_name =>
                      network[COMPONENT_MAP[other]] = before[COMPONENT_MAP[other]]
            /\ DOMAIN network[list_name] = DOMAIN before[list_name]
            /\ \A name \in DOMAIN before[list_name] \ {id} :
                  network[list_name][name] = before[list_name][name]
            /\ \A column \in DOMAIN before[list_name][id] \ {written} :
                  network[list_name][id][column] = before[list_name][id][column]

-----------------------------------------------------------------------------
(* Properties of _add_links *)

\* An inverter from a bus of at most 1500 V to a bus of neither 415 V nor 800 V.
BadPairing(net, link) ==
    /\ link.type = "inverter"
    /\ net.buses[link.bus0].v_nom <= V1500
    /\ net.buses[link.bus1].v_nom \notin {V415, V800}

-----------------------------------------------------------------------------
(* Properties of setup_network: the success path *)

\* C30: a setup_network that succeeds returns self.network as the last stage
\* left it, never None, and the technology-library cache holds the storage,
\* transformer and generator libraries that _load_tech_libraries stored: no
\* stage that passes clears or replaces them.
C30_SuccessKeepsResources ==
    [][/\ (pc' = "done" /\ pc # "done") =>
            /\ pc = "finalize"
            /\ returned' = "network"
            /\ error' = NoError
            /\ network' = network
            /\ network' # NoneNet
            /\ tech_libraries' = tech_libraries
            /\ DOMAIN tech_libraries' = {"storage", "transformer", "generator"}
       /\ (pc \in {StageOrder[i] : i \in 2..Len(StageOrder)} /\ pc' # "failed") =>
            /\ tech_libraries' = tech_libraries
            /\ DOMAIN tech_libraries' = {"storage", "transformer", "generator"}
            /\ network' # NoneNet
    ]_vars

\* A build of a network with two buses has returned it.
C30_Witness ==
    /\ pc = "done"
    /\ returned = "network"
    /\ DOMAIN network.buses = {"B1", "B2"}
    /\ DOMAIN tech_libraries = {"storage", "transformer", "generator"}

====
